---- MODULE Spec2Model ----
(***************************************************************************)
(* Model of src/bot.py: the three exchange fetchers (fetch_polymarket,     *)
(* fetch_kalshi, fetch_manifold), the poll loop market_loop and the        *)
(* on_ready handler that spawns it.                                        *)
(*                                                                         *)
(* JSON values are tagged records [t, n, s, a, f]:                         *)
(*   t = "null" | "bool" | "num" | "str" | "arr" | "obj"                   *)
(*   n : the number, in hundredths (0.40 is 40, 42 is 4200); for a bool    *)
(*       1 (True) or 0 (False)                                             *)
(*   s : the characters of a string, a sequence of one-character strings   *)
(*   a : the elements of an array                                          *)
(*   f : the fields of an object, a sequence of <<name, value>> pairs      *)
(* Python floats are integers in hundredths as well.                       *)
(***************************************************************************)
EXTENDS Integers, Sequences, FiniteSets, TLC

\* ---------------------------------------------------------------- bounds
MaxRecords == 3
MaxTasks == 2

\* ------------------------------------------------------------ JSON values
Null == [t |-> "null", n |-> 0, s |-> <<>>, a |-> <<>>, f |-> <<>>]
Bool(b) == [t |-> "bool", n |-> IF b THEN 1 ELSE 0, s |-> <<>>, a |-> <<>>, f |-> <<>>]
Num(n) == [t |-> "num", n |-> n, s |-> <<>>, a |-> <<>>, f |-> <<>>]
Str(s) == [t |-> "str", n |-> 0, s |-> s, a |-> <<>>, f |-> <<>>]
Arr(a) == [t |-> "arr", n |-> 0, s |-> <<>>, a |-> a, f |-> <<>>]
Obj(f) == [t |-> "obj", n |-> 0, s |-> <<>>, a |-> <<>>, f |-> f]

\* Python truthiness of a value (the `if x`, `not x` and `x or y` tests).
Truthy(v) ==
    CASE v.t = "null" -> FALSE
      [] v.t = "bool" -> v.n = 1
      [] v.t = "num" -> v.n # 0
      [] v.t = "str" -> v.s # <<>>
      [] v.t = "arr" -> v.a # <<>>
      [] v.t = "obj" -> v.f # <<>>

\* `x or y`
PyOr(x, y) == IF Truthy(x) THEN x ELSE y

\* dict.get(name): the value of the first pair named name, None when absent.
\* Raises AttributeError on a value that is not a dict: HasGet tells.
HasGet(m) == m.t = "obj"
Get(m, name) ==
    LET hits == {i \in 1..Len(m.f) : m.f[i][1] = name}
    IN IF hits = {} THEN Null
       ELSE m.f[CHOOSE i \in hits : \A j \in hits : j <= i][2]
HasKey(m, name) == \E i \in 1..Len(m.f) : m.f[i][1] = name

\* ------------------------------------------------------------ safe_float
Digits == <<"0", "1", "2", "3", "4", "5", "6", "7", "8", "9">>
IsDigit(c) == \E i \in 1..10 : Digits[i] = c
DigitVal(c) == (CHOOSE i \in 1..10 : Digits[i] = c) - 1

RECURSIVE DigitsVal(_)
DigitsVal(cs) ==
    IF cs = <<>> THEN 0
    ELSE DigitsVal(SubSeq(cs, 1, Len(cs) - 1)) * 10 + DigitVal(cs[Len(cs)])

AllDigits(cs) == \A i \in 1..Len(cs) : IsDigit(cs[i])

\* float(str) on the strings of the model: an optional "-", digits, and an
\* optional "." followed by one or two digits.  Anything else is ValueError.
Unsigned(cs) ==
    LET dots == {i \in 1..Len(cs) : cs[i] = "."}
    IN IF dots = {}
       THEN IF cs # <<>> /\ AllDigits(cs)
            THEN [ok |-> TRUE, v |-> DigitsVal(cs) * 100]
            ELSE [ok |-> FALSE, v |-> 0]
       ELSE LET d == CHOOSE i \in dots : TRUE
                ip == SubSeq(cs, 1, d - 1)
                fp == SubSeq(cs, d + 1, Len(cs))
            IN IF Cardinality(dots) = 1 /\ ip # <<>> /\ AllDigits(ip)
                  /\ Len(fp) \in {1, 2} /\ AllDigits(fp)
               THEN [ok |-> TRUE,
                     v |-> DigitsVal(ip) * 100
                           + (IF Len(fp) = 1 THEN DigitsVal(fp) * 10 ELSE DigitsVal(fp))]
               ELSE [ok |-> FALSE, v |-> 0]

ParseFloat(cs) ==
    IF cs # <<>> /\ cs[1] = "-"
    THEN LET u == Unsigned(Tail(cs)) IN [ok |-> u.ok, v |-> 0 - u.v]
    ELSE Unsigned(cs)

\* safe_float(v): float(v), or None (ok = FALSE) when float raises.
safe_float(v) ==
    CASE v.t = "num" -> [ok |-> TRUE, v |-> v.n]
      [] v.t = "bool" -> [ok |-> TRUE, v |-> v.n * 100]
      [] v.t = "str" -> ParseFloat(v.s)
      [] OTHER -> [ok |-> FALSE, v |-> 0]

\* ------------------------------------------------------------- str(value)
RECURSIVE NatChars(_)
NatChars(k) ==
    IF k < 10 THEN <<Digits[k + 1]>>
    ELSE NatChars(k \div 10) \o <<Digits[(k % 10) + 1]>>

\* The characters an f-string gives for a value: f"{m.get('id')}".
\* Numbers of the model are whole when used as identifiers.
Format(v) ==
    CASE v.t = "null" -> <<"N", "o", "n", "e">>
      [] v.t = "bool" -> IF v.n = 1 THEN <<"T", "r", "u", "e">>
                         ELSE <<"F", "a", "l", "s", "e">>
      [] v.t = "num" ->
           LET m == IF v.n < 0 THEN 0 - v.n ELSE v.n
               sign == IF v.n < 0 THEN <<"-">> ELSE <<>>
               fr == m % 100
           IN sign \o NatChars(m \div 100)
                   \o (IF fr = 0 THEN <<>>
                       ELSE IF fr % 10 = 0 THEN <<".", Digits[(fr \div 10) + 1]>>
                       ELSE <<".", Digits[(fr \div 10) + 1], Digits[(fr % 10) + 1]>>)
      [] v.t = "str" -> v.s
      [] v.t = "arr" -> <<"[", "]">>
      [] v.t = "obj" -> <<"{", "}">>

\* -------------------------------------------------------------- json.loads
\* json.loads on the texts of the model: a scalar (number, quoted string,
\* null, true, false) or a flat array of scalars; blanks between tokens are
\* ignored.  ok = FALSE is json.JSONDecodeError.
RECURSIVE NoBlanks(_)
NoBlanks(cs) ==
    IF cs = <<>> THEN <<>>
    ELSE (IF Head(cs) = " " THEN <<>> ELSE <<Head(cs)>>) \o NoBlanks(Tail(cs))

RECURSIVE Split(_, _)
Split(cs, sep) ==
    LET seps == {i \in 1..Len(cs) : cs[i] = sep}
    IN IF seps = {} THEN <<cs>>
       ELSE LET i == CHOOSE j \in seps : \A k \in seps : j <= k
            IN <<SubSeq(cs, 1, i - 1)>> \o Split(SubSeq(cs, i + 1, Len(cs)), sep)

ParseScalar(cs) ==
    IF Len(cs) >= 2 /\ cs[1] = "\"" /\ cs[Len(cs)] = "\""
       /\ \A i \in 2..(Len(cs) - 1) : cs[i] # "\""
    THEN [ok |-> TRUE, v |-> Str(SubSeq(cs, 2, Len(cs) - 1))]
    ELSE IF ParseFloat(cs).ok THEN [ok |-> TRUE, v |-> Num(ParseFloat(cs).v)]
    ELSE IF cs = <<"n", "u", "l", "l">> THEN [ok |-> TRUE, v |-> Null]
    ELSE IF cs = <<"t", "r", "u", "e">> THEN [ok |-> TRUE, v |-> Bool(TRUE)]
    ELSE IF cs = <<"f", "a", "l", "s", "e">> THEN [ok |-> TRUE, v |-> Bool(FALSE)]
    ELSE [ok |-> FALSE, v |-> Null]

\* The scalars of the parts of an array text; ok = FALSE when one of them
\* is no scalar.
RECURSIVE ParseParts(_)
ParseParts(parts) ==
    IF parts = <<>> THEN [ok |-> TRUE, vs |-> <<>>]
    ELSE LET h == ParseScalar(Head(parts))
             r == ParseParts(Tail(parts))
         IN IF h.ok /\ r.ok THEN [ok |-> TRUE, vs |-> <<h.v>> \o r.vs]
            ELSE [ok |-> FALSE, vs |-> <<>>]

JsonLoads(text) ==
    LET cs == NoBlanks(text)
    IN IF Len(cs) >= 2 /\ cs[1] = "[" /\ cs[Len(cs)] = "]"
       THEN LET inner == SubSeq(cs, 2, Len(cs) - 1)
                elems == ParseParts(IF inner = <<>> THEN <<>> ELSE Split(inner, ","))
            IN IF elems.ok THEN [ok |-> TRUE, v |-> Arr(elems.vs)]
               ELSE [ok |-> FALSE, v |-> Null]
       ELSE ParseScalar(cs)

\* ------------------------------------------------- len(), iteration, x[0]
\* len(v) raises TypeError unless v is a list, a str or a dict.
Sized(v) == v.t \in {"arr", "str", "obj"}
PyLen(v) ==
    CASE v.t = "arr" -> Len(v.a)
      [] v.t = "str" -> Len(v.s)
      [] v.t = "obj" -> Len(v.f)
      [] OTHER -> 0

RECURSIVE CharStrs(_)
CharStrs(cs) == IF cs = <<>> THEN <<>> ELSE <<Str(<<Head(cs)>>)>> \o CharStrs(Tail(cs))

RECURSIVE KeyStrs(_)
KeyStrs(fs) == IF fs = <<>> THEN <<>> ELSE <<Str(<<Head(fs)[1]>>)>> \o KeyStrs(Tail(fs))

\* What `for m in v` yields: the elements of a list, the characters of a
\* str, the keys of a dict (a key is given as a str of one symbol).
Elements(v) ==
    CASE v.t = "arr" -> v.a
      [] v.t = "str" -> CharStrs(v.s)
      [] v.t = "obj" -> KeyStrs(v.f)
      [] OTHER -> <<>>

\* v[0]: ok = FALSE is the KeyError of a dict (JSON keys are strings) or the
\* IndexError of an empty sequence.
First(v) ==
    CASE v.t = "arr" /\ v.a # <<>> -> [ok |-> TRUE, v |-> v.a[1]]
      [] v.t = "str" /\ v.s # <<>> -> [ok |-> TRUE, v |-> Str(<<v.s[1]>>)]
      [] OTHER -> [ok |-> FALSE, v |-> Null]

\* ------------------------------------------------------------ observations
Observation(prefix, id, platform, question, liquidity, prob) ==
    [key |-> prefix \o Format(id), platform |-> platform, question |-> question,
     liquidity |-> liquidity, prob |-> prob]

\* What one iteration of a fetcher's loop does with a record:
\*   "emit"  it appends obs; "skip" it continues; "raise" an exception
\*   leaves the iteration.
Emit(o) == [act |-> "emit", obs |-> <<o>>]
Skip == [act |-> "skip", obs |-> <<>>]
Raise == [act |-> "raise", obs |-> <<>>]

\* ------------------------------------------------------- fetch_polymarket
\* The body of the loop over data (lines 88-137), for one record m.  Every
\* exception raised in it is caught by the record's own try.
PolyRecord(m) ==
    IF ~HasGet(m) THEN Raise
    ELSE IF Truthy(Get(m, "closed")) THEN Skip
    ELSE IF ~Truthy(Get(m, "active")) THEN Skip
    ELSE
      LET liquidity == safe_float(PyOr(Get(m, "liquidity"), Get(m, "liquidityNum")))
          prices_raw == PyOr(Get(m, "outcomePrices"), Get(m, "outcome_prices"))
          loaded == IF prices_raw.t = "str" THEN JsonLoads(prices_raw.s)
                    ELSE [ok |-> TRUE, v |-> prices_raw]
          prices == loaded.v
      IN IF ~liquidity.ok \/ liquidity.v = 0 THEN Skip
         ELSE IF ~loaded.ok THEN Skip
         ELSE IF ~Truthy(prices) THEN Skip
         ELSE IF ~Sized(prices) THEN Raise
         ELSE IF PyLen(prices) # 2 THEN Skip
         ELSE IF ~First(prices).ok THEN Raise
         ELSE LET yes_price == safe_float(First(prices).v)
              IN IF ~yes_price.ok THEN Skip
                 ELSE Emit(Observation(<<"p", "o", "l", "y", "|">>, Get(m, "id"),
                                       "Polymarket", Get(m, "question"),
                                       liquidity.v, yes_price.v))

\* for idx, m in enumerate(data): try: ... except Exception: continue
RECURSIVE PolyLoop(_)
PolyLoop(data) ==
    IF data = <<>> THEN <<>>
    ELSE PolyRecord(Head(data)).obs \o PolyLoop(Tail(data))

\* The try block of fetch_polymarket: exc tells whether an exception left
\* it, markets is the list at that point.
PolyTry(resp) ==
    IF resp.net # "ok" THEN [exc |-> TRUE, markets |-> <<>>]
    ELSE IF resp.status # 200 THEN [exc |-> FALSE, markets |-> <<>>]
    ELSE IF ~resp.json THEN [exc |-> TRUE, markets |-> <<>>]
    ELSE
      LET payload == resp.payload
          known == payload.t = "arr"
                   \/ (payload.t = "obj"
                       /\ (HasKey(payload, "data") \/ HasKey(payload, "markets")))
          data == IF payload.t = "arr" THEN payload
                  ELSE IF HasKey(payload, "data") THEN Get(payload, "data")
                  ELSE Get(payload, "markets")
      IN IF ~known THEN [exc |-> FALSE, markets |-> <<>>]
         ELSE IF ~Sized(data) THEN [exc |-> TRUE, markets |-> <<>>]
         ELSE [exc |-> FALSE, markets |-> PolyLoop(Elements(data))]

fetch_polymarket_reraise(resp) ==
    [raised |-> PolyTry(resp).exc, markets |-> PolyTry(resp).markets]

\* except Exception: log; return markets
fetch_polymarket(resp) ==
    [raised |-> FALSE, markets |-> PolyTry(resp).markets]

\* ----------------------------------------------------------- fetch_kalshi
Div100(x) == IF x >= 0 THEN x \div 100 ELSE 0 - ((0 - x) \div 100)

\* The body of `for m in raw` (lines 213-225); nothing catches inside it.
KalshiRecord(m) ==
    IF ~HasGet(m) THEN Raise
    ELSE
      LET liquidity == safe_float(Get(m, "liquidity"))
          yes_bid == safe_float(Get(m, "yes_bid"))
      IN IF ~liquidity.ok \/ ~yes_bid.ok THEN Skip
         ELSE Emit(Observation(<<"k", "a", "l", "s", "h", "i", "|">>, Get(m, "ticker"),
                               "Kalshi", Get(m, "title"),
                               liquidity.v, Div100(yes_bid.v)))

\* A loop with no try in its body: the first exception leaves the loop with
\* the markets appended so far.
RECURSIVE KalshiLoop(_, _)
KalshiLoop(raw, markets) ==
    IF raw = <<>> THEN [exc |-> FALSE, markets |-> markets]
    ELSE LET r == KalshiRecord(Head(raw))
         IN IF r.act = "raise" THEN [exc |-> TRUE, markets |-> markets]
            ELSE KalshiLoop(Tail(raw), markets \o r.obs)

\* `not KALSHI_API_KEY`: the variable is unset (None) or empty.
KeyMissing(k) == k \in {"unset", "empty"}

KalshiTry(secret, resp) ==
    IF secret = "badpadding" THEN [exc |-> TRUE, markets |-> <<>>]
    ELSE IF resp.net # "ok" THEN [exc |-> TRUE, markets |-> <<>>]
    ELSE IF resp.status # 200 THEN [exc |-> FALSE, markets |-> <<>>]
    ELSE IF ~resp.json THEN [exc |-> TRUE, markets |-> <<>>]
    ELSE IF ~HasGet(resp.payload) THEN [exc |-> TRUE, markets |-> <<>>]
    ELSE
      LET raw == IF HasKey(resp.payload, "markets") THEN Get(resp.payload, "markets")
                 ELSE Arr(<<>>)
      IN IF ~Sized(raw) THEN [exc |-> TRUE, markets |-> <<>>]
         ELSE KalshiLoop(Elements(raw), <<>>)

fetch_kalshi_reraise(key, secret, resp) ==
    IF KeyMissing(key) \/ KeyMissing(secret) THEN [raised |-> FALSE, markets |-> <<>>]
    ELSE [raised |-> KalshiTry(secret, resp).exc, markets |-> KalshiTry(secret, resp).markets]

fetch_kalshi(key, secret, resp) ==
    IF KeyMissing(key) \/ KeyMissing(secret) THEN [raised |-> FALSE, markets |-> <<>>]
    ELSE [raised |-> FALSE, markets |-> KalshiTry(secret, resp).markets]

\* --------------------------------------------------------- fetch_manifold
\* The body of `for m in payload` (lines 249-264); nothing catches inside it.
ManifoldRecord(m) ==
    IF ~HasGet(m) THEN Raise
    ELSE IF Truthy(Get(m, "isResolved")) THEN Skip
    ELSE
      LET liquidity == safe_float(Get(m, "volume24Hours"))
          prob == safe_float(Get(m, "probability"))
      IN IF ~liquidity.ok \/ ~prob.ok THEN Skip
         ELSE Emit(Observation(<<"m", "a", "n", "i", "f", "o", "l", "d", "|">>,
                               Get(m, "id"), "Manifold", Get(m, "question"),
                               liquidity.v, prob.v))

RECURSIVE ManifoldLoop(_, _)
ManifoldLoop(payload, markets) ==
    IF payload = <<>> THEN [exc |-> FALSE, markets |-> markets]
    ELSE LET r == ManifoldRecord(Head(payload))
         IN IF r.act = "raise" THEN [exc |-> TRUE, markets |-> markets]
            ELSE ManifoldLoop(Tail(payload), markets \o r.obs)

ManifoldTry(resp) ==
    IF resp.net # "ok" THEN [exc |-> TRUE, markets |-> <<>>]
    ELSE IF resp.status # 200 THEN [exc |-> FALSE, markets |-> <<>>]
    ELSE IF ~resp.json THEN [exc |-> TRUE, markets |-> <<>>]
    ELSE IF ~Sized(resp.payload) THEN [exc |-> TRUE, markets |-> <<>>]
    ELSE ManifoldLoop(Elements(resp.payload), <<>>)

fetch_manifold_reraise(resp) ==
    [raised |-> ManifoldTry(resp).exc, markets |-> ManifoldTry(resp).markets]

fetch_manifold(resp) ==
    [raised |-> FALSE, markets |-> ManifoldTry(resp).markets]

\* ------------------------------------------------------------------ inputs
\* An HTTP exchange as the fetchers see it: net is how session.get ended
\* ("ok", "error" a client error, "timeout" the 20 s timeout), status the
\* status line, json whether resp.json() decodes the body, payload the
\* decoded body.
Response(net, status, json, payload) ==
    [net |-> net, status |-> status, json |-> json, payload |-> payload]
Ok(payload) == Response("ok", 200, TRUE, payload)
NoResponse == Response("none", 0, FALSE, Null)
TransportFailures ==
    {Response("error", 0, FALSE, Null), Response("timeout", 0, FALSE, Null),
     Response("ok", 500, FALSE, Null), Response("ok", 200, FALSE, Null)}

Q1 == Str(<<"W", "i", "l", "l", " ", "X", "?">>)
Q2 == Str(<<"w", "i", "l", "l", " ", "x">>)

\* Polymarket records: numeric fields as strings, prices as a JSON text;
\* numeric fields as numbers, prices as a list; a closed market; a prices
\* text that is no JSON; a record that is no object; prices that are a number.
PolyGoodText ==
    Obj(<<<<"id", Str(<<"4", "2">>)>>, <<"closed", Bool(FALSE)>>, <<"active", Bool(TRUE)>>,
          <<"liquidity", Str(<<"1", "6", "0">>)>>, <<"question", Q1>>,
          <<"outcomePrices",
            Str(<<"[", "\"", "0", ".", "4", "\"", ",", " ", "\"", "0", ".", "6", "\"", "]">>)>>>>)
PolyGoodList ==
    Obj(<<<<"id", Num(700)>>, <<"active", Bool(TRUE)>>, <<"liquidityNum", Num(550)>>,
          <<"question", Q2>>, <<"outcome_prices", Arr(<<Num(25), Num(75)>>)>>>>)
PolyClosed ==
    Obj(<<<<"id", Str(<<"9">>)>>, <<"closed", Bool(TRUE)>>, <<"active", Bool(TRUE)>>,
          <<"liquidity", Num(100)>>, <<"outcomePrices", Arr(<<Num(50), Num(50)>>)>>>>)
PolyBadText ==
    Obj(<<<<"id", Str(<<"8">>)>>, <<"active", Bool(TRUE)>>, <<"liquidity", Num(100)>>,
          <<"outcomePrices", Str(<<"[", "0", ".", "4", ",">>)>>>>)
PolyNumberPrices ==
    Obj(<<<<"id", Str(<<"5">>)>>, <<"active", Bool(TRUE)>>, <<"liquidity", Num(100)>>,
          <<"outcomePrices", Num(500)>>>>)
\* A record without id whose liquidity is negative and whose first price
\* exceeds 1.
PolyOutOfRange ==
    Obj(<<<<"active", Bool(TRUE)>>, <<"liquidity", Num(-500)>>, <<"question", Q1>>,
          <<"outcomePrices", Arr(<<Num(150), Num(-50)>>)>>>>)
\* A record whose prices are the JSON text of the string "12".
PolyTextOfString ==
    Obj(<<<<"id", Str(<<"7">>)>>, <<"active", Bool(TRUE)>>, <<"liquidity", Num(100)>>,
          <<"outcomePrices", Str(<<"\"", "1", "2", "\"">>)>>>>)
NotAnObject == Str(<<"e", "r", "r">>)
PolyRecords ==
    {PolyGoodText, PolyGoodList, PolyClosed, PolyBadText, PolyNumberPrices,
     PolyOutOfRange, PolyTextOfString, NotAnObject}

KalshiGood ==
    Obj(<<<<"ticker", Str(<<"A">>)>>, <<"title", Q1>>, <<"liquidity", Num(10000)>>,
          <<"yes_bid", Num(4000)>>>>)
KalshiGoodText ==
    Obj(<<<<"ticker", Str(<<"B">>)>>, <<"title", Q2>>, <<"liquidity", Str(<<"2", "5", "0">>)>>,
          <<"yes_bid", Str(<<"5", "5">>)>>>>)
KalshiNoBid ==
    Obj(<<<<"ticker", Str(<<"C">>)>>, <<"liquidity", Num(300)>>>>)
KalshiBadNumber ==
    Obj(<<<<"ticker", Str(<<"D">>)>>, <<"liquidity", Str(<<"n", "/", "a">>)>>,
          <<"yes_bid", Num(1000)>>>>)
\* A record without ticker whose bid exceeds 100 cents.
KalshiOutOfRange ==
    Obj(<<<<"title", Q2>>, <<"liquidity", Num(300)>>, <<"yes_bid", Num(15000)>>>>)
KalshiRecords ==
    {KalshiGood, KalshiGoodText, KalshiNoBid, KalshiBadNumber, KalshiOutOfRange,
     NotAnObject, Null}

ManifoldGood ==
    Obj(<<<<"id", Str(<<"m", "1">>)>>, <<"question", Q1>>, <<"volume24Hours", Num(1250)>>,
          <<"probability", Num(30)>>>>)
ManifoldGoodText ==
    Obj(<<<<"id", Str(<<"m", "2">>)>>, <<"question", Q2>>,
          <<"volume24Hours", Str(<<"7">>)>>, <<"probability", Str(<<"0", ".", "4", "2">>)>>>>)
ManifoldResolved ==
    Obj(<<<<"id", Str(<<"m", "3">>)>>, <<"isResolved", Bool(TRUE)>>,
          <<"volume24Hours", Num(100)>>, <<"probability", Num(100)>>>>)
ManifoldNoProb ==
    Obj(<<<<"id", Str(<<"m", "4">>)>>, <<"volume24Hours", Num(100)>>>>)
\* A record without id whose volume and probability are negative.
ManifoldOutOfRange ==
    Obj(<<<<"question", Q1>>, <<"volume24Hours", Str(<<"-", "3">>)>>,
          <<"probability", Num(-20)>>>>)
ManifoldRecords ==
    {ManifoldGood, ManifoldGoodText, ManifoldResolved, ManifoldNoProb,
     ManifoldOutOfRange, NotAnObject, Num(100)}

SeqsUpTo(S, n) == UNION {[1..k -> S] : k \in 0..n}

\* Bodies that decode but are not the market collection the fetcher expects.
Misshapen ==
    {Null, Num(100), NotAnObject, Obj(<<<<"error", NotAnObject>>>>),
     Obj(<<<<"markets", Null>>>>), Obj(<<<<"markets", NotAnObject>>>>),
     Obj(<<<<"data", Num(100)>>>>), Obj(<<<<"data", Obj(<<<<"error", NotAnObject>>>>)>>>>)}

PolyPayloads ==
    {Arr(rs) : rs \in SeqsUpTo(PolyRecords, MaxRecords)}
    \cup {Obj(<<<<"data", Arr(rs)>>>>) : rs \in SeqsUpTo(PolyRecords, 1)}
    \cup {Obj(<<<<"markets", Arr(rs)>>>>) : rs \in SeqsUpTo(PolyRecords, 1)}
    \cup Misshapen
KalshiPayloads ==
    {Obj(<<<<"markets", Arr(rs)>>>>) : rs \in SeqsUpTo(KalshiRecords, MaxRecords)}
    \cup {Arr(rs) : rs \in SeqsUpTo(KalshiRecords, 1)}
    \cup Misshapen
ManifoldPayloads ==
    {Arr(rs) : rs \in SeqsUpTo(ManifoldRecords, MaxRecords)}
    \cup {Obj(<<<<"markets", Arr(rs)>>>>) : rs \in SeqsUpTo(ManifoldRecords, 1)}
    \cup Misshapen

PolyResponses == TransportFailures \cup {Ok(p) : p \in PolyPayloads}
KalshiResponses == TransportFailures \cup {Ok(p) : p \in KalshiPayloads}
ManifoldResponses == TransportFailures \cup {Ok(p) : p \in ManifoldPayloads}

\* KALSHI_API_KEY and KALSHI_API_SECRET as read from the environment.
KeySettings == {"unset", "empty", "set"}
SecretSettings == {"unset", "empty", "valid", "badpadding"}

\* ------------------------------------------------------------------- state
VARIABLES
    DISCORD_TOKEN,      \* line 26
    proc,               \* the process: at line 313, raised, or in client.run
    KALSHI_API_KEY,     \* line 36
    KALSHI_API_SECRET,  \* line 37
    closed,             \* client.is_closed()
    pc,                 \* pc[t]: where market_loop task t stands
    poly,               \* poly[t], kalshi[t], manifold[t]: the locals of task t
    kalshi,
    manifold,
    wsc,                \* wsc[t]: where polymarket_websocket task t stands
    wsLog,              \* wsLog[t]: what task t logged last
    fn,                 \* a single call of a fetcher: its name,
    reply,               \*   the HTTP exchange it sees,
    returned,           \*   whether it has returned,
    ret                 \*   and what it returned

vars == <<DISCORD_TOKEN, proc, KALSHI_API_KEY, KALSHI_API_SECRET, closed, pc,
          poly, kalshi, manifold, wsc, wsLog, fn, reply, returned, ret>>
loopVars == <<closed, pc, poly, kalshi, manifold>>
callVars == <<fn, reply, returned, ret>>
envVars == <<DISCORD_TOKEN, KALSHI_API_KEY, KALSHI_API_SECRET>>
sockVars == <<wsc, wsLog>>

Tasks == 1..MaxTasks
NoReturn == [raised |-> FALSE, markets |-> <<>>]

\* ------------------------------------------------- one call of one fetcher
FetchInit ==
    /\ DISCORD_TOKEN = "set"
    /\ proc = "running"
    /\ wsc = [t \in Tasks |-> "none"]
    /\ wsLog = [t \in Tasks |-> "none"]
    /\ KALSHI_API_KEY \in KeySettings
    /\ KALSHI_API_SECRET \in SecretSettings
    /\ fn \in {"fetch_polymarket", "fetch_kalshi", "fetch_manifold"}
    /\ reply \in (CASE fn = "fetch_polymarket" -> PolyResponses
                   [] fn = "fetch_kalshi" -> KalshiResponses
                   [] fn = "fetch_manifold" -> ManifoldResponses)
    /\ (fn # "fetch_kalshi" => KALSHI_API_KEY = "unset" /\ KALSHI_API_SECRET = "unset")
    /\ returned = FALSE
    /\ ret = NoReturn
    /\ closed = FALSE
    /\ pc = [t \in Tasks |-> "none"]
    /\ poly = [t \in Tasks |-> <<>>]
    /\ kalshi = [t \in Tasks |-> <<>>]
    /\ manifold = [t \in Tasks |-> <<>>]

CallFetchPolymarket ==
    /\ fn = "fetch_polymarket" /\ ~returned
    /\ ret' = fetch_polymarket(reply)
    /\ returned' = TRUE
    /\ UNCHANGED <<fn, reply, loopVars, envVars, proc, sockVars>>

CallFetchKalshi ==
    /\ fn = "fetch_kalshi" /\ ~returned
    /\ ret' = fetch_kalshi(KALSHI_API_KEY, KALSHI_API_SECRET, reply)
    /\ returned' = TRUE
    /\ UNCHANGED <<fn, reply, loopVars, envVars, proc, sockVars>>

CallFetchManifold ==
    /\ fn = "fetch_manifold" /\ ~returned
    /\ ret' = fetch_manifold(reply)
    /\ returned' = TRUE
    /\ UNCHANGED <<fn, reply, loopVars, envVars, proc, sockVars>>

FetchNext == CallFetchPolymarket \/ CallFetchKalshi \/ CallFetchManifold
FetchSpec == FetchInit /\ [][FetchNext]_vars

\* ----------------------------------------------------------- claims C2, C3
\* The market collection a fetcher iterates is a JSON array.
WellShaped(f, payload) ==
    CASE f = "fetch_polymarket" ->
           \/ payload.t = "arr"
           \/ /\ payload.t = "obj"
              /\ \/ HasKey(payload, "data") /\ Get(payload, "data").t = "arr"
                 \/ ~HasKey(payload, "data") /\ HasKey(payload, "markets")
                    /\ Get(payload, "markets").t = "arr"
      [] f = "fetch_kalshi" ->
           /\ payload.t = "obj"
           /\ HasKey(payload, "markets") => Get(payload, "markets").t = "arr"
      [] f = "fetch_manifold" -> payload.t = "arr"

\* Network error, timeout, non-200 status, undecodable or misshapen body.
FetchFailed(f, r) ==
    r.net # "ok" \/ r.status # 200 \/ ~r.json \/ ~WellShaped(f, r.payload)

KalshiKeysSet == ~KeyMissing(KALSHI_API_KEY) /\ ~KeyMissing(KALSHI_API_SECRET)

\* C2: a fetcher whose fetch fails (network error, timeout, non-200 status
\* or malformed payload) returns the empty list and raises nothing.
C2_FailedFetchReturnsEmpty ==
    (returned /\ FetchFailed(fn, reply)) => (ret.markets = <<>> /\ ~ret.raised)

\* A Kalshi fetch with both keys set answered by a body whose "markets" is
\* not a list has returned, as has a Manifold fetch that timed out.
C2_Witness ==
    /\ returned
    /\ \/ fn = "fetch_kalshi" /\ KalshiKeysSet /\ KALSHI_API_SECRET = "valid"
          /\ reply = Ok(Obj(<<<<"markets", NotAnObject>>>>))
       \/ fn = "fetch_manifold" /\ reply.net = "timeout"
    /\ FetchFailed(fn, reply)

\* The records of the collection a fetcher iterates, for a fetch that did
\* not fail.
RecordsOf(f, payload) ==
    CASE f = "fetch_polymarket" ->
           IF payload.t = "arr" THEN payload.a
           ELSE IF HasKey(payload, "data") THEN Get(payload, "data").a
           ELSE Get(payload, "markets").a
      [] f = "fetch_kalshi" ->
           IF HasKey(payload, "markets") THEN Get(payload, "markets").a ELSE <<>>
      [] f = "fetch_manifold" -> payload.a

\* What the fetcher's loop body makes of one record taken alone.
AloneOf(f, m) ==
    CASE f = "fetch_polymarket" -> PolyRecord(m)
      [] f = "fetch_kalshi" -> KalshiRecord(m)
      [] f = "fetch_manifold" -> ManifoldRecord(m)

RECURSIVE EmittedAlone(_, _)
EmittedAlone(f, rs) ==
    IF rs = <<>> THEN <<>> ELSE AloneOf(f, Head(rs)).obs \o EmittedAlone(f, Tail(rs))

\* C3: a record whose parsing fails is skipped and every other well-formed
\* record of the batch, before or after it, is still emitted: the result is
\* the observations of the well-formed records, in order.
C3_BadRecordOnlySkipped ==
    (/\ returned
     /\ ~FetchFailed(fn, reply)
     /\ fn = "fetch_kalshi" => KalshiKeysSet /\ KALSHI_API_SECRET = "valid")
    => ret.markets = EmittedAlone(fn, RecordsOf(fn, reply.payload))

\* ---------------------------------------------------------------- claim C13
\* C13: every observation a fetcher returns has a probability in [0, 1] (0
\* to 100 hundredths) and a liquidity that is not negative.
C13_ObservationsInRange ==
    returned =>
        \A i \in 1..Len(ret.markets) :
            /\ ret.markets[i].prob >= 0
            /\ ret.markets[i].prob <= 100
            /\ ret.markets[i].liquidity >= 0

\* ---------------------------------------------------------------- claim C16
\* The prefix each fetcher writes before the identifier (lines 128, 220, 259).
KeyPrefix(f) ==
    CASE f = "fetch_polymarket" -> <<"p", "o", "l", "y", "|">>
      [] f = "fetch_kalshi" -> <<"k", "a", "l", "s", "h", "i", "|">>
      [] f = "fetch_manifold" -> <<"m", "a", "n", "i", "f", "o", "l", "d", "|">>

HasPrefix(key, prefix) ==
    Len(key) >= Len(prefix) /\ SubSeq(key, 1, Len(prefix)) = prefix

\* C16: the keys of one fetcher's result carry that exchange's prefix, so
\* that results of different exchanges cannot collide, and no two
\* observations of the result share a key.
C16_KeysUnique ==
    returned =>
        /\ \A i \in 1..Len(ret.markets) : HasPrefix(ret.markets[i].key, KeyPrefix(fn))
        /\ \A i, j \in 1..Len(ret.markets) :
              i # j => ret.markets[i].key # ret.markets[j].key

\* ---------------------------------------------------------------- claim C17
\* The liquidity and the outcome prices of a record: the first of the two
\* spellings of the field that is present, a JSON text decoded.
LiquidityOf(m) == safe_float(PyOr(Get(m, "liquidity"), Get(m, "liquidityNum")))
PricesOf(m) ==
    LET raw == PyOr(Get(m, "outcomePrices"), Get(m, "outcome_prices"))
    IN IF raw.t # "str" THEN raw
       ELSE IF JsonLoads(raw.s).ok THEN JsonLoads(raw.s).v
       ELSE Null

\* The record is active, not closed, has a parseable non-zero liquidity and
\* exactly two outcome prices whose first parses as a number.
Qualifies(m) ==
    /\ HasGet(m)
    /\ Truthy(Get(m, "active"))
    /\ ~Truthy(Get(m, "closed"))
    /\ LiquidityOf(m).ok /\ LiquidityOf(m).v # 0
    /\ PricesOf(m).t = "arr" /\ Len(PricesOf(m).a) = 2
    /\ safe_float(PricesOf(m).a[1]).ok

\* For each qualifying record, in order, its parsed liquidity and first price.
RECURSIVE Qualified(_)
Qualified(rs) ==
    IF rs = <<>> THEN <<>>
    ELSE (IF Qualifies(Head(rs))
          THEN <<[liquidity |-> LiquidityOf(Head(rs)).v,
                  prob |-> safe_float(PricesOf(Head(rs)).a[1]).v]>>
          ELSE <<>>) \o Qualified(Tail(rs))

RECURSIVE Amounts(_)
Amounts(obs) ==
    IF obs = <<>> THEN <<>>
    ELSE <<[liquidity |-> Head(obs).liquidity, prob |-> Head(obs).prob]>>
         \o Amounts(Tail(obs))

\* C17: fetch_polymarket emits an observation for exactly the records that
\* are active, not closed, with a parseable non-zero liquidity and exactly
\* two outcome prices (a list, or a JSON text of one) whose first parses as
\* a number, with that first price as probability and the parsed liquidity
\* as liquidity.
C17_PolymarketEmitsExactly ==
    (returned /\ fn = "fetch_polymarket" /\ ~FetchFailed(fn, reply))
    => Amounts(ret.markets) = Qualified(RecordsOf(fn, reply.payload))

\* -------------------------------------------------- on_ready, market_loop
\* The HTTP exchanges drawn by the fetches of the poll loop.
LoopPolyResponses ==
    {Response("timeout", 0, FALSE, Null), Ok(Arr(<<NotAnObject, PolyGoodText>>))}
LoopKalshiResponses ==
    {Response("ok", 500, FALSE, Null), Ok(Obj(<<<<"markets", Arr(<<KalshiGood>>)>>>>))}
LoopManifoldResponses ==
    {Response("error", 0, FALSE, Null), Ok(Arr(<<ManifoldGood, NotAnObject>>))}

\* What fetch_polymarket and fetch_manifold return on these exchanges.
LoopPolyResults == {fetch_polymarket(r) : r \in LoopPolyResponses}
LoopManifoldResults == {fetch_manifold(r) : r \in LoopManifoldResponses}

\* What fetch_kalshi returns under each setting of the keys: on these
\* exchanges, and on none (sync) where it returns before its request.
LoopKalshiResults ==
    {[key |-> k, secret |-> s, sync |-> FALSE, res |-> fetch_kalshi(k, s, r)] :
        k \in KeySettings, s \in SecretSettings, r \in LoopKalshiResponses}
    \cup {[key |-> k, secret |-> s, sync |-> TRUE, res |-> fetch_kalshi(k, s, NoResponse)] :
        k \in KeySettings, s \in SecretSettings}

\* The process at line 313, the environment read, the client built and
\* not yet run.
Init ==
    /\ DISCORD_TOKEN \in KeySettings
    /\ proc = "start"
    /\ \/ KALSHI_API_KEY = "unset" /\ KALSHI_API_SECRET = "valid"
       \/ KALSHI_API_KEY = "set" /\ KALSHI_API_SECRET = "unset"
       \/ KALSHI_API_KEY = "set" /\ KALSHI_API_SECRET = "valid"
    /\ wsc = [t \in Tasks |-> "none"]
    /\ wsLog = [t \in Tasks |-> "none"]
    /\ closed = FALSE
    /\ pc = [t \in Tasks |-> "none"]
    /\ poly = [t \in Tasks |-> <<>>]
    /\ kalshi = [t \in Tasks |-> <<>>]
    /\ manifold = [t \in Tasks |-> <<>>]
    /\ fn = "none"
    /\ reply = NoResponse
    /\ returned = FALSE
    /\ ret = NoReturn

\* The pcs at which a task stands inside the try block of the cycle,
\* suspended in the session.get of one of the fetchers.
CycleBody == {"fetch_polymarket", "fetch_kalshi", "fetch_manifold"}

\* Lines 313-316: without a token the module raises RuntimeError, with one
\* it enters client.run.
StartUnchecked ==
    /\ proc = "start"
    /\ proc' = "running"
    /\ UNCHANGED <<loopVars, callVars, envVars, sockVars>>

Start ==
    /\ proc = "start"
    /\ proc' = IF KeyMissing(DISCORD_TOKEN) THEN "raised" ELSE "running"
    /\ UNCHANGED <<loopVars, callVars, envVars, sockVars>>

\* on_ready (lines 305-309): create_task(market_loop()) and
\* create_task(polymarket_websocket()).  The gateway dispatches the event on
\* every READY, so also after a reconnect.
on_ready ==
    /\ proc = "running"
    /\ ~closed
    /\ \E t \in Tasks :
        /\ pc[t] = "none"
        /\ \A u \in Tasks : u < t => pc[u] # "none"
        /\ pc' = [pc EXCEPT ![t] = "wait_until_ready"]
        /\ wsc' = [wsc EXCEPT ![t] = "connect"]
    /\ UNCHANGED <<closed, poly, kalshi, manifold, wsLog, callVars, envVars, proc>>

\* `while not client.is_closed()` (line 278): the pc the test leads to.
WhileClosed(isClosed) == IF isClosed THEN "fetch_polymarket" ELSE "done"
WhileNotClosed(isClosed) == IF isClosed THEN "done" ELSE "fetch_polymarket"

\* Lines 274-278: wait_until_ready returns, the session opens, the loop
\* condition is tested for the first time.
LoopStart(t) ==
    /\ pc[t] = "wait_until_ready"
    /\ pc' = [pc EXCEPT ![t] = WhileNotClosed(closed)]
    /\ UNCHANGED <<closed, poly, kalshi, manifold, callVars, envVars, proc, sockVars>>

\* fetch_kalshi returns without awaiting when a key is missing or the
\* secret does not decode.
KalshiIsSynchronous ==
    KeyMissing(KALSHI_API_KEY) \/ KeyMissing(KALSHI_API_SECRET)
    \/ KALSHI_API_SECRET = "badpadding"

\* Line 280 returns; line 281 runs up to its await, or through when
\* fetch_kalshi does not await.  An exception leaving a fetcher is caught at
\* line 298 and the task goes to its sleep.
FetchPolymarket(t) ==
    /\ pc[t] = "fetch_polymarket"
    /\ \E p \in LoopPolyResults, e \in LoopKalshiResults :
        /\ e.key = KALSHI_API_KEY /\ e.secret = KALSHI_API_SECRET /\ e.sync
        /\ pc' = [pc EXCEPT ![t] =
                        IF p.raised THEN "sleep"
                        ELSE IF ~KalshiIsSynchronous THEN "fetch_kalshi"
                        ELSE IF e.res.raised THEN "sleep"
                        ELSE "fetch_manifold"]
        /\ poly' = [poly EXCEPT ![t] = IF p.raised THEN @ ELSE p.markets]
        /\ kalshi' = [kalshi EXCEPT ![t] =
                        IF ~p.raised /\ KalshiIsSynchronous /\ ~e.res.raised
                        THEN e.res.markets ELSE @]
    /\ UNCHANGED <<closed, manifold, callVars, envVars, proc, sockVars>>

\* Line 281 returns; line 282 runs up to its await.
FetchKalshi(t) ==
    /\ pc[t] = "fetch_kalshi"
    /\ \E e \in LoopKalshiResults :
        /\ e.key = KALSHI_API_KEY /\ e.secret = KALSHI_API_SECRET /\ ~e.sync
        /\ pc' = [pc EXCEPT ![t] = IF e.res.raised THEN "sleep" ELSE "fetch_manifold"]
        /\ kalshi' = [kalshi EXCEPT ![t] = IF e.res.raised THEN @ ELSE e.res.markets]
    /\ UNCHANGED <<closed, poly, manifold, callVars, envVars, proc, sockVars>>

\* Line 282 returns; lines 284-296 log the counts; line 301 sleeps.
FetchManifold(t) ==
    /\ pc[t] = "fetch_manifold"
    /\ \E m \in LoopManifoldResults :
        manifold' = [manifold EXCEPT ![t] = IF m.raised THEN @ ELSE m.markets]
    /\ pc' = [pc EXCEPT ![t] = "sleep"]
    /\ UNCHANGED <<closed, poly, kalshi, callVars, envVars, proc, sockVars>>

\* A sleep that leads into another cycle without testing the loop condition.
WakeUntested(t) ==
    /\ pc[t] = "sleep"
    /\ pc' = [pc EXCEPT ![t] = "fetch_polymarket"]
    /\ UNCHANGED <<closed, poly, kalshi, manifold, callVars, envVars, proc, sockVars>>

\* asyncio.sleep(FETCH_INTERVAL) returns and the loop condition is tested.
Wake(t) ==
    /\ pc[t] = "sleep"
    /\ pc' = [pc EXCEPT ![t] = WhileNotClosed(closed)]
    /\ UNCHANGED <<closed, poly, kalshi, manifold, callVars, envVars, proc, sockVars>>

\* The client is closed (client.close()).
Close ==
    /\ proc = "running"
    /\ ~closed
    /\ closed' = TRUE
    /\ UNCHANGED <<pc, poly, kalshi, manifold, callVars, envVars, proc, sockVars>>

\* The process and its market_loop tasks.  The websocket tasks on_ready
\* creates beside them are followed in WebsocketNext.
Next ==
    \/ Start
    \/ on_ready
    \/ Close
    \/ \E t \in Tasks : LoopStart(t)
    \/ \E t \in Tasks : FetchPolymarket(t)
    \/ \E t \in Tasks : FetchKalshi(t)
    \/ \E t \in Tasks : FetchManifold(t)
    \/ \E t \in Tasks : Wake(t)

Spec == Init /\ [][Next]_vars

\* The event loop resumes every task that can run: a fetch ends by its
\* 20 s timeout at the latest, the sleep after FETCH_INTERVAL.
LoopFairness ==
    \A t \in Tasks :
        /\ WF_vars(LoopStart(t))
        /\ WF_vars(FetchPolymarket(t))
        /\ WF_vars(FetchKalshi(t))
        /\ WF_vars(FetchManifold(t))
        /\ WF_vars(Wake(t))

FairSpec == Spec /\ LoopFairness

\* ----------------------------------------------------------- claims C5, C7
\* C5: while the client is not closed the poll cycle never terminates: the
\* loop is left only with the client closed, every cycle in progress reaches
\* the sleep whatever its fetches gave, and every sleep is followed by
\* another cycle unless the client has been closed.
C5_CycleNeverTerminates ==
    /\ [][\A t \in Tasks : (pc[t] # "done" /\ pc'[t] = "done") => closed]_vars
    /\ \A t \in Tasks : (pc[t] \in CycleBody) ~> (pc[t] = "sleep")
    /\ \A t \in Tasks : (pc[t] = "sleep") ~> (pc[t] = "fetch_polymarket" \/ closed)

\* A task has begun another cycle after one in which the Polymarket fetch
\* gave nothing and the Manifold fetch gave a market.
C5_Witness ==
    \E t \in Tasks :
        /\ ~closed
        /\ pc[t] = "fetch_polymarket"
        /\ poly[t] = <<>>
        /\ manifold[t] # <<>>

\* C7: at most one poll cycle is in progress at any time, also when on_ready
\* is delivered more than once.
C7_AtMostOneCycle ==
    Cardinality({t \in Tasks : pc[t] \in CycleBody}) <= 1

KalshiCredentialMissing ==
    KeyMissing(KALSHI_API_KEY) \/ KeyMissing(KALSHI_API_SECRET)

\* C14: a missing credential is fatal at startup only.  Without DISCORD_TOKEN
\* the client never runs and no market_loop and no websocket task is ever
\* created; a process that runs keeps running; and with a Kalshi key or
\* secret missing no task is ever suspended in a Kalshi request, its kalshi
\* list stays empty and the cycle goes on from the Polymarket fetch to the
\* Manifold fetch.
C14_MissingCredentialFatalAtStartupOnly ==
    /\ [](KeyMissing(DISCORD_TOKEN) =>
            /\ proc # "running"
            /\ \A t \in Tasks : pc[t] = "none" /\ wsc[t] = "none")
    /\ [][proc = "running" => proc' = "running"]_vars
    /\ [](KalshiCredentialMissing =>
            \A t \in Tasks : pc[t] # "fetch_kalshi" /\ kalshi[t] = <<>>)
    /\ [][\A t \in Tasks :
            (KalshiCredentialMissing /\ pc[t] = "fetch_polymarket" /\ pc'[t] # pc[t])
            => pc'[t] = "fetch_manifold"]_vars

\* With a Kalshi credential missing the process runs and a task is in its
\* second cycle or later, past the fetch_kalshi call.
C14_Witness ==
    /\ proc = "running"
    /\ KalshiCredentialMissing
    /\ \E t \in Tasks : pc[t] = "fetch_manifold" /\ manifold[t] # <<>>

\* ---------------------------------------------------- polymarket_websocket
\* `while not client.is_closed()` (line 155): the pc the test leads to.  Out
\* of the loop the connection is closed and line 170 sleeps.
WebsocketWhile(isClosed) == IF isClosed THEN "sleep" ELSE "recv"

\* Lines 151-153: websockets.connect returns a connection and the loop
\* condition is tested, or it raises and line 166 catches.
WebsocketConnect(t) ==
    /\ wsc[t] = "connect"
    /\ \E outcome \in {"connected", "connection error"} :
        /\ wsLog' = [wsLog EXCEPT ![t] = outcome]
        /\ wsc' = [wsc EXCEPT ![t] =
                        IF outcome = "connected" THEN WebsocketWhile(closed)
                        ELSE "sleep"]
    /\ UNCHANGED <<loopVars, callVars, envVars, proc>>

\* Lines 156-165: a message arrives and decodes, and the loop condition is
\* tested again; or the 20 s timeout passes, or recv or json.loads raises,
\* and the loop is left by break.
WebsocketRecv(t) ==
    /\ wsc[t] = "recv"
    /\ \E outcome \in {"update", "timeout", "error"} :
        /\ wsLog' = [wsLog EXCEPT ![t] = outcome]
        /\ wsc' = [wsc EXCEPT ![t] =
                        IF outcome = "update" THEN WebsocketWhile(closed)
                        ELSE "sleep"]
    /\ UNCHANGED <<loopVars, callVars, envVars, proc>>

\* Line 170: asyncio.sleep(5) returns and so does polymarket_websocket.
WebsocketSleep(t) ==
    /\ wsc[t] = "sleep"
    /\ wsc' = [wsc EXCEPT ![t] = "done"]
    /\ UNCHANGED <<wsLog, loopVars, callVars, envVars, proc>>

\* The websocket tasks share no state with the market_loop tasks but
\* client.is_closed(), which neither kind writes: they are followed here
\* with the market_loop tasks left where on_ready created them.
WebsocketNext ==
    \/ Start
    \/ on_ready
    \/ Close
    \/ \E t \in Tasks : WebsocketConnect(t)
    \/ \E t \in Tasks : WebsocketRecv(t)
    \/ \E t \in Tasks : WebsocketSleep(t)

\* The event loop resumes every task that can run: connect ends by its open
\* timeout, recv by the 20 s of wait_for, the sleep after 5 s.
WebsocketFairness ==
    \A t \in Tasks :
        /\ WF_vars(WebsocketConnect(t))
        /\ WF_vars(WebsocketRecv(t))
        /\ WF_vars(WebsocketSleep(t))

WebsocketSpec == Init /\ [][WebsocketNext]_vars /\ WebsocketFairness

\* ---------------------------------------------------------------- claim C15
\* Task t has lost or failed to get its connection and waits its 5 seconds.
Disconnected(t) ==
    wsc[t] = "sleep" /\ wsLog[t] \in {"timeout", "error", "connection error"}

\* C15: after a receive timeout, a receive error or a connection error, a
\* new connection attempt follows (by that task or by any other) unless the
\* client is closed.
C15_ReconnectsAfterDisconnect ==
    \A t \in Tasks :
        Disconnected(t) ~> (closed \/ \E u \in Tasks : wsc[u] = "connect")

====
